---- MODULE Spec2Model ----
(***************************************************************************)
(* rmext: the ZIP central-directory reader (src/archive/zip/reader.rs) and *)
(* the helpers of src/main.rs, as a state machine.                         *)
(*                                                                         *)
(* A file is a sequence of bytes (0..255); a Rust String is the sequence   *)
(* of its code points.  The reader's BufReader<File> is modelled by its    *)
(* logical stream position `pos`: for a regular file shorter than the      *)
(* 8192-byte buffer, read(buf) delivers min(len(buf), file_size - pos)     *)
(* bytes (none at or past end-of-file) and leaves the rest of buf as it    *)
(* was; seek_relative(n) fails exactly when pos + n < 0.                   *)
(***************************************************************************)
EXTENDS Integers, Sequences, FiniteSets, TLC

VARIABLES
    windows,         \* cfg!(windows): the build target
    overflow_checks, \* the build profile: debug (TRUE) or release (FALSE)
    args_encoding,   \* Args.encoding, as given on the command line
    args_mode,       \* Args.mode
    file,            \* the archive's bytes; metadata.len() = Len(file)
    given,           \* how the input file was built (input bookkeeping only)
    pc,              \* position in main / in the running function
    outcome,         \* "running", or how the program ended
    encoding,        \* ZipFileReader.encoding
    pos,             \* the reader's stream position
    buf,             \* seek_end_of_central_directory_record: the 4-byte probe buffer
    comment_length,  \* the comment_length local of the function running
    seen,            \* locator loop states visited so far (history)
    total,           \* total_number_of_central_directory_records
    records,         \* central_directory_reocrds
    sig_cursors,     \* history: the cursor at each CDFH signature read
    short_read,      \* history: some read of an entry delivered fewer bytes than asked
    file_name,       \* normalize_file_name: the argument
    normalized,      \* normalize_file_name: the result
    mode,            \* unpack_mode: the argument
    code,            \* unpack_mode: code
    codes            \* unpack_mode: codes

vars == <<windows, overflow_checks, args_encoding, args_mode, file, given, pc,
          outcome, encoding, pos, buf, comment_length, seen, total, records,
          sig_cursors, short_read, file_name, normalized, mode, code, codes>>

----------------------------------------------------------------------------
(* Bounds of the model.                                                    *)

MaxComment == 4
MaxEntries == 2
MaxHead == 6
MaxLen == 7

----------------------------------------------------------------------------
(* Byte and string helpers.                                                *)

Min(a, b) == IF a < b THEN a ELSE b

Zeros(n) == [i \in 1..n |-> 0]

Fill(n, b) == [i \in 1..n |-> b]

\* The sequences over S of length 0..n.
SeqsUpTo(S, n) == UNION {[1..k -> S] : k \in 0..n}

\* u16::from_le_bytes / u32::from_le_bytes
RECURSIVE from_le_bytes(_)
from_le_bytes(b) ==
    IF b = <<>> THEN 0 ELSE b[1] + 256 * from_le_bytes(Tail(b))

\* The n little-endian bytes of v (the archive writer's side).
RECURSIVE to_le_bytes(_, _)
to_le_bytes(v, n) ==
    IF n = 0 THEN <<>> ELSE <<v % 256>> \o to_le_bytes(v \div 256, n - 1)

\* The bytes a read of n bytes at position p delivers.
ReadAt(f, p, n) ==
    IF p >= Len(f) \/ n = 0 THEN <<>>
    ELSE SubSeq(f, p + 1, p + Min(n, Len(f) - p))

\* A buffer after read() put `got` at its start.
ReadInto(old, got) ==
    [i \in 1..Len(old) |-> IF i <= Len(got) THEN got[i] ELSE old[i]]

END_OF_CENTRAL_DIR_SIGNATURE == <<80, 75, 5, 6>>

CENTRAL_DIRECTORY_ENTRY_SIGNATURE == <<80, 75, 1, 2>>

----------------------------------------------------------------------------
(* Text: String::from_utf8, encoding_rs::SHIFT_JIS, str::to_lowercase,     *)
(* str::replace.                                                           *)

DecodeError == [ok |-> FALSE, s |-> <<>>]

\* String::from_utf8: strict UTF-8 (no overlong forms, no surrogates,
\* nothing above U+10FFFF); the code points, or an error.
RECURSIVE from_utf8(_)
from_utf8(b) ==
    IF b = <<>> THEN [ok |-> TRUE, s |-> <<>>]
    ELSE
      LET b0 == b[1]
          n == IF b0 < 128 THEN 1
               ELSE IF b0 \in 194..223 THEN 2
               ELSE IF b0 \in 224..239 THEN 3
               ELSE IF b0 \in 240..244 THEN 4
               ELSE 0
          lo == IF b0 = 224 THEN 160 ELSE IF b0 = 240 THEN 144 ELSE 128
          hi == IF b0 = 237 THEN 159 ELSE IF b0 = 244 THEN 143 ELSE 191
          wellformed == /\ n > 0
                        /\ Len(b) >= n
                        /\ (n >= 2 => b[2] \in lo..hi)
                        /\ (n >= 3 => b[3] \in 128..191)
                        /\ (n >= 4 => b[4] \in 128..191)
          cp == CASE n = 1 -> b0
                  [] n = 2 -> (b0 - 192) * 64 + (b[2] - 128)
                  [] n = 3 -> (b0 - 224) * 4096 + (b[2] - 128) * 64 + (b[3] - 128)
                  [] n = 4 -> (b0 - 240) * 262144 + (b[2] - 128) * 4096
                              + (b[3] - 128) * 64 + (b[4] - 128)
      IN  IF ~wellformed THEN DecodeError
          ELSE LET rest == from_utf8(SubSeq(b, n + 1, Len(b)))
               IN  IF rest.ok THEN [ok |-> TRUE, s |-> <<cp>> \o rest.s]
                   ELSE DecodeError

\* encoding_rs::SHIFT_JIS.decode(bytes).0 on the single-byte range of
\* Shift_JIS: 00..80 map to themselves, A1..DF to half-width katakana
\* U+FF61.., A0 and FD..FF to U+FFFD.  Lead bytes (81..9F, E0..FC) need the
\* JIS X 0208 index and are outside the model's name alphabet (they map to
\* -1 here); so are names starting with a byte-order mark.
ShiftJisChar(b) ==
    IF b <= 128 THEN b
    ELSE IF b \in 161..223 THEN 65377 + (b - 161)
    ELSE IF b = 160 \/ b >= 253 THEN 65533
    ELSE -1

SHIFT_JIS_decode(b) == [i \in 1..Len(b) |-> ShiftJisChar(b[i])]

\* str::to_lowercase on ASCII text.
to_lowercase(s) ==
    [i \in 1..Len(s) |-> IF s[i] \in 65..90 THEN s[i] + 32 ELSE s[i]]

StartsWith(s, pat) == Len(s) >= Len(pat) /\ SubSeq(s, 1, Len(pat)) = pat

\* str::replace: every non-overlapping match of pat, found left to right,
\* is replaced by to (pat is never empty here).
RECURSIVE replace(_, _, _)
replace(s, pat, to) ==
    IF s = <<>> THEN <<>>
    ELSE IF StartsWith(s, pat)
         THEN to \o replace(SubSeq(s, Len(pat) + 1, Len(s)), pat, to)
    ELSE <<s[1]>> \o replace(Tail(s), pat, to)

\* Whether pat occurs in s.
Contains(s, pat) ==
    \E i \in 1..(Len(s) - Len(pat) + 1) : SubSeq(s, i, i + Len(pat) - 1) = pat

----------------------------------------------------------------------------
(* Inputs: files laid out as the ZIP format lays them out.                 *)

\* One Central Directory File Header: 46 fixed bytes (signature +0, flags
\* +8, uncompressed size +24, name length +28, extra length +30, comment
\* length +32), then the name, the extra field and the comment.
CdfhBytes(e) ==
    CENTRAL_DIRECTORY_ENTRY_SIGNATURE \o <<20, 0, 20, 0>> \o e.flags
      \o Zeros(14) \o to_le_bytes(e.size, 4)
      \o to_le_bytes(Len(e.name), 2) \o to_le_bytes(Len(e.extra), 2)
      \o to_le_bytes(Len(e.comment), 2) \o Zeros(12)
      \o e.name \o e.extra \o e.comment

RECURSIVE CentralDirectory(_)
CentralDirectory(es) ==
    IF es = <<>> THEN <<>> ELSE CdfhBytes(Head(es)) \o CentralDirectory(Tail(es))

\* The End Of Central Directory record: 22 fixed bytes (signature +0, disk
\* numbers +4, entry counts +8 and +10, directory size +12, directory start
\* +16, comment length +20), then the comment.
EocdBytes(disk, count, cd_size, cd_offset, comment) ==
    END_OF_CENTRAL_DIR_SIGNATURE \o disk \o Zeros(2)
      \o to_le_bytes(count, 2) \o to_le_bytes(count, 2)
      \o to_le_bytes(cd_size, 4) \o to_le_bytes(cd_offset, 4)
      \o to_le_bytes(Len(comment), 2) \o comment

\* prefix, the directory of es, and an EOCD record that declares `count`
\* entries starting at cd_offset.
ArchiveBytes(prefix, es, disk, count, cd_offset, comment) ==
    LET cd == CentralDirectory(es)
    IN  prefix \o cd \o EocdBytes(disk, count, Len(cd), cd_offset, comment)

SignatureBytes == {80, 75, 5, 6}

UTF8 == <<117, 116, 102, 56>>

CP932 == <<99, 112, 57, 51, 50>>

Given(kind, es, cd_start, comment) ==
    [kind |-> kind, entries |-> es, cd_start |-> cd_start, comment |-> comment]

NoEntry == [name |-> <<>>, size |-> 0, flags |-> <<0, 0>>, extra |-> <<>>, comment |-> <<>>]

----------------------------------------------------------------------------
(* The initial states.                                                     *)

Boot(f, g, enc, m, w, o, at, fname, md) ==
    /\ windows = w
    /\ overflow_checks = o
    /\ args_encoding = enc
    /\ args_mode = m
    /\ file = f
    /\ given = g
    /\ pc = at
    /\ outcome = "running"
    /\ encoding = <<>>
    /\ pos = 0
    /\ buf = Zeros(4)
    /\ comment_length = 0
    /\ seen = {}
    /\ total = 0
    /\ records = <<>>
    /\ sig_cursors = <<>>
    /\ short_read = FALSE
    /\ file_name = fname
    /\ normalized = <<>>
    /\ mode = md
    /\ code = 1
    /\ codes = <<>>

\* main is about to validate its arguments.
Start(f, g, enc, m, w) == Boot(f, g, enc, m, w, TRUE, "validate", <<>>, 0)

inputs == <<windows, overflow_checks, args_encoding, args_mode, file, given>>

locator_vars == <<buf, seen>>

walker_vars == <<total, records, sig_cursors, short_read>>

helper_vars == <<file_name, normalized, mode, code, codes>>

----------------------------------------------------------------------------
(* main: argument validation and the construction of the reader.           *)

ALLOWED_ENCODINGS == {UTF8, CP932}

ALLOWED_CODES == {1, 2, 3}

\* main.rs 70-72: the two asserts.
MainValidate ==
    /\ pc = "validate"
    /\ IF to_lowercase(args_encoding) \in ALLOWED_ENCODINGS
          /\ args_mode \in ALLOWED_CODES
       THEN pc' = "new" /\ outcome' = outcome
       ELSE pc' = "done" /\ outcome' = "validate_panic"
    /\ UNCHANGED <<inputs, encoding, pos, comment_length, locator_vars,
                   walker_vars, helper_vars>>

\* main.rs 76, reader.rs 24-31: the reader keeps the encoding as given.
ZipFileReader_new ==
    /\ pc = "new"
    /\ encoding' = args_encoding
    /\ pos' = 0
    /\ pc' = "locate_start"
    /\ UNCHANGED <<inputs, outcome, comment_length, locator_vars,
                   walker_vars, helper_vars>>

----------------------------------------------------------------------------
(* ZipFileReader::seek_end_of_central_directory_record.  main unwraps its   *)
(* result, so an Err ends the program ("locate_err").  The function is     *)
(* deterministic: coming back to a loop head in a state it was in before   *)
(* means it loops forever, which the model records as outcome "loop".      *)

LoopKey == <<pc, pos, buf, comment_length>>

\* reader.rs 45-52: the number of bytes of the probe that differ from the
\* signature.
ProbeOffset(b) ==
    Cardinality({i \in 1..4 : END_OF_CENTRAL_DIR_SIGNATURE[i] /= b[i]})

\* reader.rs 34-39
LocateStart ==
    /\ pc = "locate_start"
    /\ LET file_size == Len(file)
       IN  IF file_size - 18 < 0 \/ file_size - 18 - 4 < 0
           THEN /\ pc' = "done"
                /\ outcome' = "locate_err"
                /\ pos' = IF file_size - 18 < 0 THEN file_size
                          ELSE file_size - 18
           ELSE /\ pc' = "locate_outer"
                /\ outcome' = outcome
                /\ pos' = file_size - 18 - 4
    /\ comment_length' = 0
    /\ UNCHANGED <<inputs, encoding, locator_vars, walker_vars, helper_vars>>

\* reader.rs 40-41: the outer loop's test.
LocateOuter ==
    /\ pc = "locate_outer"
    /\ IF LoopKey \in seen
       THEN pc' = "done" /\ outcome' = "loop" /\ UNCHANGED <<buf, seen>>
       ELSE /\ seen' = seen \cup {LoopKey}
            /\ outcome' = outcome
            /\ IF comment_length + pos /= Len(file)
               THEN pc' = "locate_probe" /\ buf' = Zeros(4)
               ELSE pc' = "locate_finish" /\ buf' = buf
    /\ UNCHANGED <<inputs, encoding, pos, comment_length, walker_vars,
                   helper_vars>>

\* reader.rs 42-54: one pass of the inner loop (entered with buf different
\* from the signature).
LocateProbe ==
    /\ pc = "locate_probe"
    /\ IF LoopKey \in seen
       THEN pc' = "done" /\ outcome' = "loop" /\ UNCHANGED <<pos, buf, seen>>
       ELSE LET got == ReadAt(file, pos, 4)
                read == ReadInto(buf, got)
                target == pos + Len(got) - ProbeOffset(read)
            IN  /\ seen' = seen \cup {LoopKey}
                /\ buf' = read
                /\ IF target < 0
                   THEN /\ pc' = "done"
                        /\ outcome' = "locate_err"
                        /\ pos' = pos + Len(got)
                   ELSE /\ pos' = target
                        /\ outcome' = outcome
                        /\ pc' = IF read = END_OF_CENTRAL_DIR_SIGNATURE
                                 THEN "locate_comment_length"
                                 ELSE "locate_probe"
    /\ UNCHANGED <<inputs, encoding, comment_length, walker_vars, helper_vars>>

\* reader.rs 56-62
LocateCommentLength ==
    /\ pc = "locate_comment_length"
    /\ LET got == ReadAt(file, pos + 16, 2)
       IN  /\ comment_length' = from_le_bytes(ReadInto(Zeros(2), got))
           /\ pos' = pos + 16 + Len(got)
    /\ pc' = "locate_outer"
    /\ UNCHANGED <<inputs, outcome, encoding, locator_vars, walker_vars,
                   helper_vars>>

\* reader.rs 64-65
LocateFinish ==
    /\ pc = "locate_finish"
    /\ IF pos - 22 < 0
       THEN pc' = "done" /\ outcome' = "locate_err" /\ pos' = pos
       ELSE pc' = "walk_header" /\ outcome' = outcome /\ pos' = pos - 22
    /\ UNCHANGED <<inputs, encoding, comment_length, locator_vars,
                   walker_vars, helper_vars>>

----------------------------------------------------------------------------
(* ZipFileReader::read_central_directory_file_header.  Every unwrap, the   *)
(* assert_eq and the panics end the program with the outcome named.        *)

\* reader.rs 173-175
is_utf8(general_purpose_bit_flag) ==
    (general_purpose_bit_flag[1] \div 32) % 2 = 1

\* reader.rs 140-158: the name of an entry from its bytes; `why` is the
\* panic when there is one.
DecodeName(flag, bytes, enc, win) ==
    LET strict == from_utf8(bytes)
        legacy == SHIFT_JIS_decode(bytes)
    IN  IF is_utf8(flag)
        THEN IF strict.ok THEN [ok |-> TRUE, s |-> strict.s, why |-> ""]
             ELSE [ok |-> FALSE, s |-> <<>>, why |-> "utf8_panic"]
        ELSE IF enc = UTF8
        THEN IF strict.ok THEN [ok |-> TRUE, s |-> strict.s, why |-> ""]
             ELSE IF win THEN [ok |-> TRUE, s |-> legacy, why |-> ""]
             ELSE [ok |-> FALSE, s |-> <<>>, why |-> "utf8_panic"]
        ELSE IF enc = CP932
        THEN [ok |-> TRUE, s |-> legacy, why |-> ""]
        ELSE [ok |-> FALSE, s |-> <<>>, why |-> "invalid_encoding_panic"]

\* A walker that does not skip the comment of the entry before.
EntryStart_NoCommentSkip(cursor, comment_len) == cursor

\* reader.rs 94: where an iteration reads its signature, from the cursor
\* the iteration before left and that entry's comment length.
EntryStart(cursor, comment_len) == cursor + comment_len

\* reader.rs 96-139: the reads of one iteration, the signature read being
\* at position p.
CdfhAt(f, p) ==
    LET sig_got == ReadAt(f, p, 4)
        flag_at == p + Len(sig_got) + 4
        flag_got == ReadAt(f, flag_at, 2)
        size_at == flag_at + Len(flag_got) + 14
        size_got == ReadAt(f, size_at, 4)
        nlen_at == size_at + Len(size_got)
        nlen_got == ReadAt(f, nlen_at, 2)
        elen_at == nlen_at + Len(nlen_got)
        elen_got == ReadAt(f, elen_at, 2)
        clen_at == elen_at + Len(elen_got)
        clen_got == ReadAt(f, clen_at, 2)
        name_at == clen_at + Len(clen_got) + 12
        file_name_length == from_le_bytes(ReadInto(Zeros(2), nlen_got))
        name_got == ReadAt(f, name_at, file_name_length)
    IN  [signature |-> ReadInto(Zeros(4), sig_got),
         general_purpose_bit_flag |-> ReadInto(Zeros(2), flag_got),
         uncompressed_size |-> from_le_bytes(ReadInto(Zeros(4), size_got)),
         file_name_length |-> file_name_length,
         extra_field_length |-> from_le_bytes(ReadInto(Zeros(2), elen_got)),
         comment_length |-> from_le_bytes(ReadInto(Zeros(2), clen_got)),
         name_at |-> name_at,
         name |-> name_got,
         sig_short |-> Len(sig_got) < 4,
         short |-> \/ Len(sig_got) < 4 \/ Len(flag_got) < 2
                   \/ Len(size_got) < 4 \/ Len(nlen_got) < 2
                   \/ Len(elen_got) < 2 \/ Len(clen_got) < 2
                   \/ Len(name_got) < file_name_length]

\* reader.rs 69-92
WalkHeader ==
    /\ pc = "walk_header"
    /\ LET count_got == ReadAt(file, pos + 10, 2)
           offset_at == pos + 10 + Len(count_got) + 4
           offset_got == ReadAt(file, offset_at, 4)
       IN  /\ total' = from_le_bytes(ReadInto(Zeros(2), count_got))
           /\ pos' = from_le_bytes(ReadInto(Zeros(4), offset_got))
    /\ records' = <<>>
    /\ comment_length' = 0
    /\ pc' = "walk_entry"
    /\ UNCHANGED <<inputs, outcome, encoding, locator_vars, sig_cursors,
                   short_read, helper_vars>>

\* reader.rs 93-168: one iteration of the loop over the declared entries.
WalkEntry ==
    /\ pc = "walk_entry"
    /\ Len(records) < total
    /\ LET at == EntryStart(pos, comment_length)
           h == CdfhAt(file, at)
           name == DecodeName(h.general_purpose_bit_flag, h.name, encoding,
                              windows)
       IN  /\ sig_cursors' = Append(sig_cursors, at)
           /\ short_read' =
                  (short_read \/ IF h.signature = CENTRAL_DIRECTORY_ENTRY_SIGNATURE
                                 THEN h.short ELSE h.sig_short)
           /\ IF h.signature /= CENTRAL_DIRECTORY_ENTRY_SIGNATURE
              THEN /\ pc' = "done" /\ outcome' = "signature_panic"
                   /\ pos' = at + Len(ReadAt(file, at, 4))
                   /\ UNCHANGED <<records, comment_length>>
              ELSE IF Len(h.name) < h.file_name_length
              THEN /\ pc' = "done" /\ outcome' = "eof_panic"
                   /\ pos' = h.name_at
                   /\ comment_length' = h.comment_length
                   /\ UNCHANGED records
              ELSE IF ~name.ok
              THEN /\ pc' = "done" /\ outcome' = name.why
                   /\ pos' = h.name_at + h.file_name_length
                   /\ comment_length' = h.comment_length
                   /\ UNCHANGED records
              ELSE /\ pc' = pc /\ outcome' = outcome
                   /\ pos' = h.name_at + h.file_name_length
                             + h.extra_field_length
                   /\ comment_length' = h.comment_length
                   /\ records' = Append(records,
                        [file_name |-> name.s,
                         uncompressed_size |-> h.uncompressed_size,
                         general_purpose_bit_flag |->
                             h.general_purpose_bit_flag])
    /\ UNCHANGED <<inputs, encoding, locator_vars, total, helper_vars>>

\* reader.rs 170: the loop is over, the list is returned to main.
WalkReturn ==
    /\ pc = "walk_entry"
    /\ Len(records) = total
    /\ pc' = "done"
    /\ outcome' = "headers"
    /\ UNCHANGED <<inputs, encoding, pos, comment_length, locator_vars,
                   walker_vars, helper_vars>>

Next ==
    \/ MainValidate
    \/ ZipFileReader_new
    \/ LocateStart
    \/ LocateOuter
    \/ LocateProbe
    \/ LocateCommentLength
    \/ LocateFinish
    \/ WalkHeader
    \/ WalkEntry
    \/ WalkReturn

----------------------------------------------------------------------------
(* The files the program is run on.                                        *)

SampleEntry ==
    [name |-> <<65>>, size |-> 7, flags |-> <<0, 0>>, extra |-> <<>>,
     comment |-> <<>>]

\* A prefix, a directory of no or one entry, a well-formed EOCD record and
\* a comment of up to MaxComment bytes drawn from the signature's own bytes.
TailPrefixes == {<<>>, <<0>>, END_OF_CENTRAL_DIR_SIGNATURE}

TailDirectories == {<<>>, <<SampleEntry>>}

TailDisks == {<<0, 0>>, <<6, 0>>}

\* Files without structure: a head of up to MaxHead signature bytes, zero
\* padding, and two last bytes; and files too short to hold a record.
RawLengths == {22, 23}

RawTails == {<<0, 0>>, <<1, 0>>}

ShortLengths == {0, 4, 17, 18, 21}

InitLocator ==
    \/ \E prefix \in TailPrefixes, es \in TailDirectories, disk \in TailDisks,
          comment \in SeqsUpTo(SignatureBytes, MaxComment) :
          Start(ArchiveBytes(prefix, es, disk, Len(es), Len(prefix), comment),
                Given("tail", es, Len(prefix), comment), UTF8, 3, FALSE)
    \/ \E head \in SeqsUpTo(SignatureBytes, MaxHead), n \in RawLengths,
          tail \in RawTails :
          Start(head \o Zeros(n - Len(head) - 2) \o tail,
                Given("raw", <<>>, 0, <<>>), UTF8, 3, FALSE)
    \/ \E n \in ShortLengths :
          Start(Zeros(n), Given("raw", <<>>, 0, <<>>), UTF8, 3, FALSE)

SpecLocator == InitLocator /\ [][Next]_vars

\* Archives whose entries differ in the lengths of their three trailers.
NameLengths == {0, 1, 2}

ExtraLengths == {0, 2}

CommentLengths == {0, 1}

\* No flag bit set, and bits 5 and 11 both set.
LayoutFlags == {<<0, 0>>, <<32, 8>>}

LayoutEntries ==
    {[name |-> Fill(n, 65), size |-> 7, flags |-> f,
      extra |-> Fill(x, 69), comment |-> Fill(c, 67)] :
        n \in NameLengths, x \in ExtraLengths, c \in CommentLengths,
        f \in LayoutFlags}

LayoutPrefixes == {<<>>, <<0, 0, 0>>}

InitLayout ==
    \E prefix \in LayoutPrefixes, es \in SeqsUpTo(LayoutEntries, MaxEntries),
       enc \in {UTF8, CP932} :
       Start(ArchiveBytes(prefix, es, <<0, 0>>, Len(es), Len(prefix), <<>>),
             Given("archive", es, Len(prefix), <<>>), enc, 3, FALSE)

SpecLayout == InitLayout /\ [][Next]_vars

\* Archives whose entries differ in name, flags and size, read under each
\* encoding argument on each platform.  Names: "A", U+00E9 in UTF-8 (C3 A9)
\* and the byte 80, which is no UTF-8.
ArchiveNames == {<<65>>, <<195, 169>>, <<128>>}

ArchiveFlags == {<<0, 0>>, <<0, 8>>, <<32, 0>>}

ArchiveSizes == {7, 16909060}

ArchiveTrailers == {<<<<>>, <<>>>>, <<<<69>>, <<67, 67>>>>}

ArchiveEntries ==
    {[name |-> n, size |-> z, flags |-> f, extra |-> t[1], comment |-> t[2]] :
        n \in ArchiveNames, z \in ArchiveSizes, f \in ArchiveFlags,
        t \in ArchiveTrailers}

\* "utf8", "cp932", "UTF8", "Cp932", "sjis"
EncodingArgs ==
    {UTF8, CP932, <<85, 84, 70, 56>>, <<67, 112, 57, 51, 50>>,
     <<115, 106, 105, 115>>}

ModeArgs == {0, 1, 2, 3, 4}

InitArchive ==
    \E es \in SeqsUpTo(ArchiveEntries, MaxEntries), enc \in EncodingArgs,
       m \in ModeArgs, w \in BOOLEAN :
       /\ (m /= 3 => es = <<>> /\ ~w)
       /\ Start(ArchiveBytes(<<>>, es, <<0, 0>>, Len(es), 0, <<>>),
                Given("archive", es, 0, <<>>), enc, m, w)

SpecArchive == InitArchive /\ [][Next]_vars

\* Archives whose EOCD record declares any count and any directory start,
\* behind a directory that may be cut short: the first t bytes of an entry
\* and nothing else of it.
CorruptEntries ==
    {SampleEntry,
     [name |-> <<65, 65>>, size |-> 7, flags |-> <<0, 0>>, extra |-> <<69>>,
      comment |-> <<67>>]}

Stubs == {SubSeq(CdfhBytes(SampleEntry), 1, t) : t \in 0..47}

InitCorrupt ==
    \E stub \in Stubs, es \in SeqsUpTo(CorruptEntries, MaxEntries),
       count \in 0..(MaxEntries + 1) :
       /\ stub /= <<>> => es = <<>>
       /\ \E offset \in 0..(Len(stub) + Len(CentralDirectory(es)) + 22) :
             Start(ArchiveBytes(stub, es, <<0, 0>>, count, offset, <<>>),
                   Given("corrupt", es, offset, <<>>), UTF8, 3, FALSE)

SpecCorrupt == InitCorrupt /\ [][Next]_vars

----------------------------------------------------------------------------
(* normalize_file_name (main.rs 264-278), run on its own.                  *)

DOT == 46

SLASH == 47

BACKSLASH == 92

normalize_file_name(name, win) ==
    IF win
    THEN replace(replace(replace(name, <<SLASH>>, <<BACKSLASH>>),
                         <<DOT, DOT, BACKSLASH>>, <<>>),
                 <<DOT, BACKSLASH>>, <<>>)
    ELSE replace(replace(replace(name, <<BACKSLASH>>, <<SLASH>>),
                         <<DOT, DOT, SLASH>>, <<>>),
                 <<DOT, SLASH>>, <<>>)

\* main.rs 253: the call.
Normalize ==
    /\ pc = "normalize"
    /\ normalized' = normalize_file_name(file_name, windows)
    /\ pc' = "done"
    /\ outcome' = "normalized"
    /\ UNCHANGED <<inputs, encoding, pos, comment_length, locator_vars,
                   walker_vars, file_name, mode, code, codes>>

\* '.', '/', '\' and 'A'
PathChars == {DOT, SLASH, BACKSLASH, 65}

InitNormalize ==
    \E name \in SeqsUpTo(PathChars, MaxLen), w \in BOOLEAN :
       Boot(<<>>, Given("none", <<>>, 0, <<>>), UTF8, 3, w, TRUE, "normalize",
            name, 0)

SpecNormalize == InitNormalize /\ [][Normalize]_vars

----------------------------------------------------------------------------
(* unpack_mode (main.rs 193-205), run on its own: mode is any u8.          *)

U8_MAX == 255

\* u8::pow: with overflow checks an overflow panics, without them the
\* result wraps.
pow_overflows(base, exp) == base ^ exp > U8_MAX

wrapping_pow(base, exp) == (base ^ exp) % (U8_MAX + 1)

\* A comparison that is strict where the code's is not.
CodeIsSet_Strict(m, c) == wrapping_pow(2, c - 1) < m % wrapping_pow(2, c)

\* main.rs 199: whether code is pushed (its divisor is not zero).
CodeIsSet(m, c) == wrapping_pow(2, c - 1) <= m % wrapping_pow(2, c)

\* main.rs 198-203: the loop's test and one pass of its body; main.rs 204
\* when the test fails.
UnpackLoop ==
    /\ pc = "unpack"
    /\ IF overflow_checks /\ pow_overflows(2, code - 1)
       THEN pc' = "done" /\ outcome' = "overflow_panic" /\ UNCHANGED <<code, codes>>
       ELSE IF ~(mode >= wrapping_pow(2, code - 1))
       THEN pc' = "done" /\ outcome' = "codes" /\ UNCHANGED <<code, codes>>
       ELSE IF overflow_checks /\ pow_overflows(2, code)
       THEN pc' = "done" /\ outcome' = "overflow_panic" /\ UNCHANGED <<code, codes>>
       ELSE IF wrapping_pow(2, code) = 0
       THEN pc' = "done" /\ outcome' = "remainder_panic" /\ UNCHANGED <<code, codes>>
       ELSE /\ codes' = IF CodeIsSet(mode, code) THEN Append(codes, code)
                        ELSE codes
            /\ code' = code + 1
            /\ pc' = pc
            /\ outcome' = outcome
    /\ UNCHANGED <<inputs, encoding, pos, comment_length, locator_vars,
                   walker_vars, file_name, normalized, mode>>

InitUnpack ==
    \E m \in 0..U8_MAX, o \in BOOLEAN :
       Boot(<<>>, Given("none", <<>>, 0, <<>>), UTF8, m, FALSE, o, "unpack",
            <<>>, m)

SpecUnpack == InitUnpack /\ [][UnpackLoop]_vars

----------------------------------------------------------------------------
(* The claims.                                                             *)

\* seek_end_of_central_directory_record has returned Ok: main is about to
\* call read_central_directory_file_header with the cursor where it was left.
LocatorOk == pc = "walk_header"

\* The locator is over: it returned Ok or Err, or it never returns.
LocatorOver == LocatorOk \/ outcome \in {"locate_err", "loop"}

\* r is the offset of a record whose comment length reconciles it with the
\* end of f.
EocdAt(f, r) ==
    /\ r >= 0
    /\ r + 22 <= Len(f)
    /\ SubSeq(f, r + 1, r + 4) = END_OF_CENTRAL_DIR_SIGNATURE
    /\ r + 22 + from_le_bytes(SubSeq(f, r + 21, r + 22)) = Len(f)

\* C1 (comment tolerance): on a file that ends with a well-formed EOCD
\* record and its comment of c bytes, the locator returns Ok with the cursor
\* at file_length - 22 - c.
C1_CommentTolerance ==
    (given.kind = "tail" /\ LocatorOver)
        => (LocatorOk /\ pos = Len(file) - 22 - Len(given.comment))

\* C2 (success postcondition): whenever the locator returns Ok, the cursor
\* is on a signature whose record's comment length reconciles with the end
\* of the file.
C2_OkIsVerifiedRecord == LocatorOk => EocdAt(file, pos)

\* C3 (termination with an error): on a file of at least 22 bytes with no
\* reconciled EOCD record anywhere, the locator ends, and ends with a
\* failure.
C3_NoRecordFails ==
    (Len(file) >= 22 /\ LocatorOver /\ ~(\E r \in 0..Len(file) : EocdAt(file, r)))
        => outcome = "locate_err"

\* The 16-bit flag value has bit 11 (mask 0x0800) set.
Bit11(flags) == (from_le_bytes(flags) \div 2048) % 2 = 1

\* The name section 4.3 of the specification gives an entry: strict UTF-8
\* when bit 11 is set, else what the policy says.
NameByPolicy(e, enc, win) ==
    LET strict == from_utf8(e.name)
    IN  IF Bit11(e.flags) \/ (enc = UTF8 /\ (strict.ok \/ ~win))
        THEN strict
        ELSE [ok |-> TRUE, s |-> SHIFT_JIS_decode(e.name)]

\* The entries the walker is to return for the archive built from es.
ExpectedRecords(es, enc, win) ==
    [i \in 1..Len(es) |->
        [file_name |-> NameByPolicy(es[i], enc, win).s,
         uncompressed_size |-> es[i].size,
         general_purpose_bit_flag |-> es[i].flags]]

\* The archive is one of entries whose names the policy can decode, read
\* with an encoding argument that is one of the allowed ones as written.
Decodable ==
    /\ given.kind = "archive"
    /\ args_encoding \in ALLOWED_ENCODINGS
    /\ args_mode \in ALLOWED_CODES
    /\ \A i \in 1..Len(given.entries) :
          NameByPolicy(given.entries[i], args_encoding, windows).ok

\* C4 (round trip): for an archive built from a list of entries, with no
\* EOCD comment, the locator leaves the cursor at file_length - 22 and the
\* walker returns exactly those entries in storage order.
C4_RoundTrip ==
    (Decodable /\ given.comment = <<>>)
        => /\ outcome \in {"running", "headers"}
           /\ LocatorOk => pos = Len(file) - 22
           /\ outcome = "headers"
                 => records = ExpectedRecords(given.entries, encoding, windows)

\* The bytes of the first k entries of es.
RECURSIVE DirectoryBytes(_, _)
DirectoryBytes(es, k) ==
    IF k = 0 THEN 0
    ELSE DirectoryBytes(es, k - 1) + 46 + Len(es[k].name) + Len(es[k].extra)
         + Len(es[k].comment)

C6_FlagBitDecoding ==
    (given.kind = "archive" /\ args_encoding \in ALLOWED_ENCODINGS)
        => /\ \A i \in 1..Len(records) :
                 LET name == NameByPolicy(given.entries[i], encoding, windows)
                 IN  name.ok /\ records[i].file_name = name.s
           /\ outcome = "utf8_panic"
                 => ~NameByPolicy(given.entries[Len(records) + 1], encoding,
                                  windows).ok

\* C7 (no silent entry): when a read of a declared entry delivers fewer
\* bytes than the field needs, or its signature is wrong, the walker fails
\* and returns no list.
C7_NoSilentEntry ==
    (pc = "done" /\ short_read) => outcome /= "headers"

\* C8 (encoding rejected at setup): no encoding argument reaches the
\* walker's "invalid encoding" failure: main's validation rejects it or the
\* per-entry dispatch accepts it.
C8_RejectedAtSetup == outcome /= "invalid_encoding_panic"

\* C9 (normalisation): off Windows, the normalised name holds neither "../"
\* nor "./".
C9_NoDotSteps ==
    (outcome = "normalized" /\ ~windows)
        => /\ ~Contains(normalized, <<DOT, DOT, SLASH>>)
           /\ ~Contains(normalized, <<DOT, SLASH>>)

\* The 1-based positions of the bits set in m, in ascending order.
RECURSIVE BitPositions(_, _)
BitPositions(m, i) ==
    IF m = 0 THEN <<>>
    ELSE (IF m % 2 = 1 THEN <<i>> ELSE <<>>) \o BitPositions(m \div 2, i + 1)

\* C10 (as claimed): for every u8 mode unpack_mode returns, without a
\* panic, the positions of the bits set in mode.
C10_EveryMode ==
    pc = "done" => (outcome = "codes" /\ codes = BitPositions(mode, 1))

\* C10 (as amended): for every mode below 128 unpack_mode returns, without
\* a panic, the positions of the bits set in mode; from 128 on it panics.
C10_Below128 ==
    pc = "done"
        => IF mode < 128
           THEN outcome = "codes" /\ codes = BitPositions(mode, 1)
           ELSE outcome \in {"overflow_panic", "remainder_panic"}

\* unpack_mode(5) has returned [1, 3].
C10_Witness ==
    pc = "done" /\ mode = 5 /\ outcome = "codes" /\ codes = <<1, 3>>

====
